---- MODULE Spec2Model ----
(***************************************************************************)
(* A model of spi/wiki_interface.py: the Wiki adapter over mwclient.Site.  *)
(*                                                                         *)
(* Every web request creates its own Wiki instance (Wiki.__init__), calls  *)
(* methods on it and drops it when the request ends.  The wiki itself is   *)
(* an external collaborator: each method action draws the response of the  *)
(* site from a bounded set of well-formed responses and records, in        *)
(* `call`, what the method was given, what the site answered and what the  *)
(* method returned (or which exception it raised).                         *)
(***************************************************************************)
EXTENDS Integers, Sequences, FiniteSets, TLC

VARIABLES
    wikis,  \* the live Wiki instances: records [request, site]
    call    \* the last method invocation, or [op |-> "idle"]

vars == <<wikis, call>>

(***************************************************************************)
(* Python values.                                                          *)
(***************************************************************************)
None == "None"

\* The outcome of a call that returned `v`.
Returned(v) == [raised |-> "", value |-> v]

\* The outcome of a call that raised exception `e`.
Raised(e) == [raised |-> e]

(***************************************************************************)
(* Django: settings, sessions and the social-auth table.                   *)
(***************************************************************************)
SOCIAL_AUTH_MEDIAWIKI_KEY == "consumer-key"

SOCIAL_AUTH_MEDIAWIKI_SECRET == "consumer-secret"

MEDIAWIKI_SITE_NAME == "en.wikipedia.org"

MEDIAWIKI_USER_AGENT == "spi-tools"

\* The requests a view may hand to Wiki(): no request at all, or a request
\* whose session belongs to a user.
Requests == {None, "req-anon", "req-alice", "req-bob", "req-root", "req-carol"}

\* django.contrib.auth.get_user(request): the user of the request's session.
\* root logs in through ModelBackend (the admin site) and never went through
\* the MediaWiki OAuth hand-shake; carol has associated two MediaWiki accounts.
get_user(request) ==
    CASE request = "req-anon"  -> "AnonymousUser"
      [] request = "req-alice" -> "alice"
      [] request = "req-bob"   -> "bob"
      [] request = "req-root"  -> "root"
      [] request = "req-carol" -> "carol"

is_anonymous(user) == user = "AnonymousUser"

\* The rows of social_django's UserSocialAuth table.
SocialAuth ==
    { [user |-> "alice", provider |-> "mediawiki",
       extra_data |-> [access_token |-> [oauth_token |-> "alice-token",
                                         oauth_token_secret |-> "alice-secret"]]],
      [user |-> "bob", provider |-> "mediawiki",
       extra_data |-> [access_token |-> [oauth_token |-> "bob-token",
                                         oauth_token_secret |-> "bob-secret"]]],
      [user |-> "carol", provider |-> "mediawiki",
       extra_data |-> [access_token |-> [oauth_token |-> "carol-token",
                                         oauth_token_secret |-> "carol-secret"]]],
      [user |-> "carol", provider |-> "mediawiki",
       extra_data |-> [access_token |-> [oauth_token |-> "carol2-token",
                                         oauth_token_secret |-> "carol2-secret"]]],
      [user |-> "bob", provider |-> "github",
       extra_data |-> [access_token |-> [oauth_token |-> "bob-github-token",
                                         oauth_token_secret |-> "bob-github-secret"]]] }

\* user.social_auth.get(provider=...): the one matching row, or an exception.
social_auth_get(user, provider) ==
    LET rows == {r \in SocialAuth : r.user = user /\ r.provider = provider}
    IN  IF rows = {} THEN Raised("DoesNotExist")
        ELSE IF Cardinality(rows) > 1 THEN Raised("MultipleObjectsReturned")
        ELSE Returned(CHOOSE r \in rows : TRUE)

\* mwclient.Site(host, clients_useragent=..., **auth_info)
Site(host, clients_useragent, auth_info) ==
    [host |-> host, clients_useragent |-> clients_useragent, auth |-> auth_info]

\* get_mw_site looking the access token up without regard to the user: every
\* authenticated request gets the token of the first user who logged in.
get_mw_site_any_user(request) ==
    LET user == IF request = None THEN None ELSE get_user(request)
        row == social_auth_get("alice", "mediawiki")
    IN  IF user = None \/ is_anonymous(user)
        THEN Returned(Site(MEDIAWIKI_SITE_NAME, MEDIAWIKI_USER_AGENT, <<>>))
        ELSE LET access_token == row.value.extra_data.access_token
             IN  Returned(Site(MEDIAWIKI_SITE_NAME, MEDIAWIKI_USER_AGENT,
                    [ consumer_token  |-> SOCIAL_AUTH_MEDIAWIKI_KEY,
                      consumer_secret |-> SOCIAL_AUTH_MEDIAWIKI_SECRET,
                      access_token    |-> access_token.oauth_token,
                      access_secret   |-> access_token.oauth_token_secret ]))

\* Wiki.get_mw_site(request)
get_mw_site(request) ==
    LET user == IF request = None THEN None ELSE get_user(request)
        row == social_auth_get(user, "mediawiki")
    IN  IF user = None \/ is_anonymous(user)
        THEN Returned(Site(MEDIAWIKI_SITE_NAME, MEDIAWIKI_USER_AGENT, <<>>))
        ELSE IF row.raised # "" THEN row
        ELSE LET access_token == row.value.extra_data.access_token
             IN  Returned(Site(MEDIAWIKI_SITE_NAME, MEDIAWIKI_USER_AGENT,
                    [ consumer_token  |-> SOCIAL_AUTH_MEDIAWIKI_KEY,
                      consumer_secret |-> SOCIAL_AUTH_MEDIAWIKI_SECRET,
                      access_token    |-> access_token.oauth_token,
                      access_secret   |-> access_token.oauth_token_secret ]))

(***************************************************************************)
(* Python values that share a slot with None are tagged.                   *)
(***************************************************************************)
PyNone == [py |-> "None"]

PyStr(s) == [py |-> "str", s |-> s]

\* A datetime: hours since the epoch, UTC.
Datetime(t) == [py |-> "datetime", t |-> t]

\* Python truthiness of None and of strings.
truthy(v) == ~ (v = PyNone \/ v = PyStr(<<>>) \/ v = PyStr(""))

\* dict.get(key): the value under key, None when the key is absent.
dict_get(d, key) == IF key \in DOMAIN d THEN d[key] ELSE PyNone

(***************************************************************************)
(* Time.  The site reports a log entry's or contribution's timestamp as a  *)
(* struct_time and a revision's timestamp or a block's expiry as ISO 8601  *)
(* text, here the tokens <<date, "T", time, zone>>.                        *)
(***************************************************************************)
StructTimes ==
    { [tm_mday |-> 1, tm_hour |-> 23],
      [tm_mday |-> 2, tm_hour |-> 0],
      [tm_mday |-> 2, tm_hour |-> 1] }

\* time_utils.struct_to_datetime
struct_to_datetime(st) == Datetime(st.tm_mday * 24 + st.tm_hour)

DayOf(date) ==
    CASE date = "2020-01-01" -> 1
      [] date = "2020-01-02" -> 2
      [] date = "2020-01-03" -> 3

HourOf(time) ==
    CASE time = "00:00:00" -> 0
      [] time = "01:00:00" -> 1
      [] time = "23:00:00" -> 23

\* dateutil.parser.isoparse: accepts the zone "Z" and "+00:00".
isoparse(text) ==
    IF Len(text) = 4 /\ text[2] = "T" /\ text[4] \in {"Z", "+00:00"}
    THEN Returned(Datetime(DayOf(text[1]) * 24 + HourOf(text[3])))
    ELSE Raised("ValueError")

\* datetime.datetime.fromisoformat: accepts "+00:00" and not "Z".
fromisoformat(text) ==
    IF Len(text) = 4 /\ text[2] = "T" /\ text[4] = "+00:00"
    THEN Returned(Datetime(DayOf(text[1]) * 24 + HourOf(text[3])))
    ELSE Raised("ValueError")

(***************************************************************************)
(* Wiki.get_user_blocks                                                    *)
(***************************************************************************)
MaxLog == 2

UserNames == {"Vandal", "Sock"}

\* The actions of the entries of a block log; "protect" stands for an
\* action the method does not know.
LogActions == {"block", "reblock", "unblock", "protect"}

\* The params of a log entry: indefinite (no expiry), an empty expiry, or an
\* expiry in ISO 8601.
LogParams ==
    { [duration |-> PyStr("infinite")],
      [duration |-> PyStr("infinite"), expiry |-> PyStr(<<>>)],
      [duration |-> PyStr("1 day"),
       expiry |-> PyStr(<<"2020-01-03", "T", "01:00:00", "Z">>)] }

LogEntries == [action : LogActions, timestamp : StructTimes, params : LogParams]

\* The hour a struct_time denotes, as the site orders its log.
LogTime(entry) == entry.timestamp.tm_mday * 24 + entry.timestamp.tm_hour

\* The block logs the site may hold for a user: entries in the order they
\* were logged, so never back in time.
BlockLogs ==
    UNION { { log \in [1..n -> LogEntries] :
                \A i \in 1..n-1 : LogTime(log[i]) <= LogTime(log[i+1]) }
            : n \in 0..MaxLog }

Reverse(s) == [i \in 1..Len(s) |-> s[Len(s) + 1 - i]]

\* mwclient.Site.logevents(title, type, dir): the log of the title, oldest
\* first for dir="newer", newest first for dir="older".
logevents(log, dir) == IF dir = "newer" THEN log ELSE Reverse(log)

\* block_utils.BlockEvent
BlockEvent(target, timestamp, expiry, reblock) ==
    [type |-> "BlockEvent", target |-> target, timestamp |-> timestamp,
     expiry |-> expiry, reblock |-> reblock]

\* block_utils.UnblockEvent
UnblockEvent(target, timestamp) ==
    [type |-> "UnblockEvent", target |-> target, timestamp |-> timestamp]

\* mwclient's default direction.
BlocksDirOlder == "older"

\* The direction get_user_blocks asks the log in.
BlocksDir == "newer"

\* The loop body with its else branch appending instead of logging: since
\* the else belongs to the last if alone, a block or reblock entry would
\* yield a second event.
BlockLoopBodyElseAppends(events, block, user_name) ==
    LET action == block.action
        timestamp == struct_to_datetime(block.timestamp)
        mw_expiry == dict_get(block.params, "expiry")
        parsed == IF truthy(mw_expiry) THEN isoparse(mw_expiry.s)
                  ELSE Returned(mw_expiry)
        expiry == parsed.value
        e1 == IF action = "block"
              THEN Append(events, BlockEvent(user_name, timestamp, expiry, FALSE))
              ELSE events
        e2 == IF action = "reblock"
              THEN Append(e1, BlockEvent(user_name, timestamp, expiry, TRUE))
              ELSE e1
        e3 == IF action = "unblock"
              THEN Append(e2, UnblockEvent(user_name, timestamp))
              ELSE Append(e2, UnblockEvent(user_name, timestamp))
    IN  IF parsed.raised # "" THEN parsed ELSE Returned(e3)

\* One turn of the loop of get_user_blocks over entry `block`: the events
\* after it, or the exception isoparse raised.  The else branch of the last
\* if only logs.
BlockLoopBody(events, block, user_name) ==
    LET action == block.action
        timestamp == struct_to_datetime(block.timestamp)
        mw_expiry == dict_get(block.params, "expiry")
        parsed == IF truthy(mw_expiry) THEN isoparse(mw_expiry.s)
                  ELSE Returned(mw_expiry)
        expiry == parsed.value
        e1 == IF action = "block"
              THEN Append(events, BlockEvent(user_name, timestamp, expiry, FALSE))
              ELSE events
        e2 == IF action = "reblock"
              THEN Append(e1, BlockEvent(user_name, timestamp, expiry, TRUE))
              ELSE e1
        e3 == IF action = "unblock"
              THEN Append(e2, UnblockEvent(user_name, timestamp))
              ELSE e2
    IN  IF parsed.raised # "" THEN parsed ELSE Returned(e3)

RECURSIVE BlockLoop(_, _, _, _)
BlockLoop(blocks, i, events, user_name) ==
    IF i > Len(blocks) THEN Returned(events)
    ELSE LET step == BlockLoopBody(events, blocks[i], user_name)
         IN  IF step.raised # "" THEN step
             ELSE BlockLoop(blocks, i + 1, step.value, user_name)

\* Wiki.get_user_blocks(user_name), the site holding `log` for the user.
get_user_blocks(log, user_name) ==
    BlockLoop(logevents(log, BlocksDir), 1, <<>>, user_name)

(***************************************************************************)
(* Wiki.get_registration_time                                              *)
(***************************************************************************)
\* What site.users(users=[user], prop=['registration']) may list: nothing,
\* a record with the registration, or a record of a missing or invalid user,
\* which has no 'registration' field.
UsersListings(user) ==
    { <<>>,
      << [name |-> user, userid |-> "7",
          registration |-> PyStr("2020-01-01T23:00:00Z")] >>,
      << [name |-> user, userid |-> "8",
          registration |-> PyStr("2020-01-02T00:00:00Z")] >>,
      << [name |-> user, missing |-> ""] >>,
      << [name |-> user, invalid |-> ""] >> }

\* mwclient's List.next(): the first item, StopIteration when there is none.
listing_next(listing) ==
    IF Len(listing) = 0 THEN Raised("StopIteration") ELSE Returned(listing[1])

\* Wiki.get_registration_time(user), the site listing `registrations`.
get_registration_time(registrations) ==
    LET userinfo == listing_next(registrations)
    IN  IF userinfo.raised # "" THEN userinfo
        ELSE IF "registration" \in DOMAIN userinfo.value
             THEN Returned(userinfo.value["registration"])
             ELSE Returned(PyNone)

(***************************************************************************)
(* Case pages: get_case, get_case_ips, page_exists, get_current_case_names *)
(***************************************************************************)
MasterNames == {"Foo", "Foo/Archive"}

\* 'Wikipedia:Sockpuppet investigations/%s' % master_name
case_title_of(master_name) == "Wikipedia:Sockpuppet investigations/" \o master_name

\* '%s/Archive' % case_title
archive_title_of(case_title) == case_title \o "/Archive"

Titles ==
    {case_title_of(m) : m \in MasterNames}
        \cup {archive_title_of(case_title_of(m)) : m \in MasterNames}

\* The text of a page; a page that does not exist has the text "".
Texts == {"", "{{checkip|1.2.3.4}}", "{{checkuser|Sock}}"}

\* What the site holds: the text of every page.
Wikitexts == [Titles -> Texts]

\* spi_utils.SpiSourceDocument
SpiSourceDocument(page_title, wiki_text) ==
    [page_title |-> page_title, wiki_text |-> wiki_text]

\* spi_utils.SpiCase(*sources)
SpiCase(docs) == [sources |-> docs]

\* spi_utils.SpiCase.find_all_ips: the addresses the documents mention.
find_all_ips(case) ==
    { "1.2.3.4" : i \in { j \in 1..Len(case.sources) :
                          case.sources[j].wiki_text = "{{checkip|1.2.3.4}}" } }

\* get_case reading the archive whatever use_archive says, as get_case_ips
\* does.
get_case_ignoring_use_archive(pages, master_name, use_archive) ==
    LET case_title == case_title_of(master_name)
        archive_title == archive_title_of(case_title)
        case_doc == SpiSourceDocument(case_title, pages[case_title])
        archive_text == pages[archive_title]
        docs == IF archive_text # ""
                THEN <<case_doc, SpiSourceDocument(archive_title, archive_text)>>
                ELSE <<case_doc>>
    IN  [case |-> SpiCase(docs), reads |-> <<case_title, archive_title>>]

\* Wiki.get_case(master_name, use_archive), the site holding `pages`: the
\* case and the titles whose text was read from the site, in order.
get_case(pages, master_name, use_archive) ==
    LET case_title == case_title_of(master_name)
        archive_title == archive_title_of(case_title)
        case_doc == SpiSourceDocument(case_title, pages[case_title])
        \* use_archive and self.site.pages[archive_title].text()
        archive_read == IF use_archive THEN <<archive_title>> ELSE <<>>
        archive_text == IF use_archive THEN pages[archive_title] ELSE ""
        docs == IF archive_text # ""
                THEN <<case_doc, SpiSourceDocument(archive_title, archive_text)>>
                ELSE <<case_doc>>
    IN  [case |-> SpiCase(docs), reads |-> <<case_title>> \o archive_read]

\* Wiki.get_case_ips(case_name), the site holding `pages`.
get_case_ips(pages, case_name) ==
    LET case_title == case_title_of(case_name)
        archive_title == archive_title_of(case_title)
        case_doc == SpiSourceDocument(case_title, pages[case_title])
        archive_text == pages[archive_title]
        docs == IF archive_text # ""
                THEN <<case_doc, SpiSourceDocument(archive_title, archive_text)>>
                ELSE <<case_doc>>
    IN  [ips |-> find_all_ips(SpiCase(docs)),
         reads |-> <<case_title, archive_title>>]

\* Wiki.page_exists(title), `exists` being what the site says of the page.
page_exists(exists) == exists

MaxTemplates == 2

\* The templates of the overview page, as mwparserfromhell finds them.
Templates ==
    { [name |-> "SPIstatusentry", params |-> <<"Foo">>],
      [name |-> "SPIstatusentry", params |-> <<"Bar", "open">>],
      [name |-> "Checkuser", params |-> <<"Baz">>] }

Overviews == UNION { [1..n -> Templates] : n \in 0..MaxTemplates }

RECURSIVE status_entry_names(_, _)
\* The first parameter of every template that is an SPIstatusentry.
status_entry_names(templates, i) ==
    IF i > Len(templates) THEN <<>>
    ELSE (IF templates[i].name = "SPIstatusentry"
          THEN <<templates[i].params[1]>> ELSE <<>>)
         \o status_entry_names(templates, i + 1)

\* Wiki.get_current_case_names(), the overview page holding `templates`.
get_current_case_names(templates) == status_entry_names(templates, 1)

(***************************************************************************)
(* Contributions: user_contributions, deleted_user_contributions           *)
(***************************************************************************)
MaxContribs == 2

MaxPages == 2

MaxRevisions == 2

PageTitles == {"Main Page", "User talk:Sock"}

Comments == {"", "rvv"}

\* WikiContrib(timestamp, title, comment, is_live)
WikiContrib(timestamp, title, comment, is_live) ==
    [timestamp |-> timestamp, title |-> title, comment |-> comment,
     is_live |-> is_live]

\* The default of WikiContrib's is_live field.
IsLiveDefault == TRUE

\* What site.usercontributions(user_name) may list.
Contributions ==
    UNION { [1..n -> [timestamp : StructTimes, title : PageTitles,
                      comment : Comments]] : n \in 0..MaxContribs }

\* Wiki.user_contributions(user_name), the site listing `contribs`: what the
\* generator yields.
user_contributions(contribs) ==
    [i \in 1..Len(contribs) |->
        WikiContrib(struct_to_datetime(contribs[i].timestamp),
                    contribs[i].title, contribs[i].comment, IsLiveDefault)]

\* The deleted revisions the site may report; its timestamps are ISO 8601
\* text in UTC.
Revisions ==
    { [timestamp |-> <<"2020-01-01", "T", "23:00:00", "Z">>, comment |-> "rvv"],
      [timestamp |-> <<"2020-01-02", "T", "01:00:00", "Z">>, comment |-> ""] }

RevisionLists == UNION { [1..n -> Revisions] : n \in 1..MaxRevisions }

\* What the alldeletedrevisions listing may hold: pages, each listed once,
\* with the deleted revisions of the page.
DeletedListings ==
    UNION { { l \in [1..n -> [title : PageTitles, revisions : RevisionLists]] :
                \A i, j \in 1..n : i # j => l[i].title # l[j].title }
            : n \in 0..MaxPages }

\* str.endswith
endswith(text, suffix) == Len(text) > 0 /\ text[Len(text)] = suffix

\* The is_live argument deleted_user_contributions passes.
DeletedIsLive == FALSE

\* The loop body leaving is_live to its default.
DeletedLoopBodyDefaultLive(page, revision) ==
    LET rev_ts == revision.timestamp
        timestamp == IF endswith(rev_ts, "Z")
                     THEN fromisoformat(SubSeq(rev_ts, 1, Len(rev_ts) - 1)
                                            \o <<"+00:00">>)
                     ELSE Raised("ValueError")
        title == page.title
        comment == revision.comment
    IN  IF timestamp.raised # "" THEN timestamp
        ELSE Returned(WikiContrib(timestamp.value, title, comment, IsLiveDefault))

\* The body of the inner loop of deleted_user_contributions: the
\* WikiContrib it yields for `revision` of `page`, or ValueError.
DeletedLoopBody(page, revision) ==
    LET rev_ts == revision.timestamp
        timestamp == IF endswith(rev_ts, "Z")
                     THEN fromisoformat(SubSeq(rev_ts, 1, Len(rev_ts) - 1)
                                            \o <<"+00:00">>)
                     ELSE Raised("ValueError")
        title == page.title
        comment == revision.comment
    IN  IF timestamp.raised # "" THEN timestamp
        ELSE Returned(WikiContrib(timestamp.value, title, comment, DeletedIsLive))

RECURSIVE DeletedLoop(_, _, _, _)
\* The generator from revision r of page p on, having yielded `yielded`.
DeletedLoop(listing, p, r, yielded) ==
    IF p > Len(listing) THEN [yielded |-> yielded, raised |-> ""]
    ELSE IF r > Len(listing[p].revisions)
    THEN DeletedLoop(listing, p + 1, 1, yielded)
    ELSE LET step == DeletedLoopBody(listing[p], listing[p].revisions[r])
         IN  IF step.raised # ""
             THEN [yielded |-> yielded, raised |-> step.raised]
             ELSE DeletedLoop(listing, p, r + 1, Append(yielded, step.value))

\* Wiki.deleted_user_contributions(user_name), the site listing `listing`:
\* what the generator yields, and the exception that ended it if any.
deleted_user_contributions(listing) == DeletedLoop(listing, 1, 1, <<>>)

Idle == [op |-> "idle"]

Init ==
    /\ wikis = {}
    /\ call = Idle

\* Wiki.__init__(request): a view creates the instance of its request.
NewWiki ==
    /\ call = Idle
    /\ \E request \in Requests :
        /\ ~ \E w \in wikis : w.request = request
        /\ LET made == get_mw_site(request)
           IN  IF made.raised # ""
               THEN /\ wikis' = wikis
                    /\ call' = [op |-> "Wiki", request |-> request,
                                raised |-> made.raised]
               ELSE /\ wikis' = wikis \cup {[request |-> request, site |-> made.value]}
                    /\ call' = [op |-> "Wiki", request |-> request, raised |-> "",
                                site |-> made.value]

\* The request ends and its Wiki instance is dropped.
EndRequest ==
    /\ call = Idle
    /\ \E w \in wikis : wikis' = wikis \ {w}
    /\ UNCHANGED call

\* A view calls get_current_case_names on its Wiki instance.
GetCurrentCaseNames ==
    /\ call = Idle
    /\ wikis # {}
    /\ \E templates \in Overviews :
        call' = [op |-> "get_current_case_names", overview |-> templates,
                 raised |-> "", value |-> get_current_case_names(templates)]
    /\ UNCHANGED wikis

\* A view calls page_exists on its Wiki instance.
PageExists ==
    /\ call = Idle
    /\ wikis # {}
    /\ \E title \in Titles, exists \in BOOLEAN :
        call' = [op |-> "page_exists", title |-> title, exists |-> exists,
                 raised |-> "", value |-> page_exists(exists)]
    /\ UNCHANGED wikis

\* A view calls get_case_ips on its Wiki instance.
GetCaseIps ==
    /\ call = Idle
    /\ wikis # {}
    /\ \E pages \in Wikitexts, case_name \in MasterNames :
        LET out == get_case_ips(pages, case_name)
        IN  call' = [op |-> "get_case_ips", pages |-> pages,
                     case_name |-> case_name, raised |-> "",
                     value |-> out.ips, reads |-> out.reads]
    /\ UNCHANGED wikis

\* A view calls get_registration_time on its Wiki instance.
GetRegistrationTime ==
    /\ call = Idle
    /\ wikis # {}
    /\ \E user \in UserNames :
        \E registrations \in UsersListings(user) :
            LET out == get_registration_time(registrations)
            IN  call' = IF out.raised # ""
                        THEN [op |-> "get_registration_time", user |-> user,
                              registrations |-> registrations,
                              raised |-> out.raised]
                        ELSE [op |-> "get_registration_time", user |-> user,
                              registrations |-> registrations,
                              raised |-> "", value |-> out.value]
    /\ UNCHANGED wikis

\* A view calls get_case on its Wiki instance.
GetCase ==
    /\ call = Idle
    /\ wikis # {}
    /\ \E pages \in Wikitexts, master_name \in MasterNames, use_archive \in BOOLEAN :
        LET out == get_case(pages, master_name, use_archive)
        IN  call' = [op |-> "get_case", pages |-> pages,
                     master_name |-> master_name, use_archive |-> use_archive,
                     raised |-> "", value |-> out.case, reads |-> out.reads]
    /\ UNCHANGED wikis

\* A view consumes the generator user_contributions returns.
UserContributions ==
    /\ call = Idle
    /\ wikis # {}
    /\ \E user_name \in UserNames, contribs \in Contributions :
        call' = [op |-> "user_contributions", user_name |-> user_name,
                 contribs |-> contribs, raised |-> "",
                 yielded |-> user_contributions(contribs)]
    /\ UNCHANGED wikis

\* A view consumes the generator deleted_user_contributions returns.
DeletedUserContributions ==
    /\ call = Idle
    /\ wikis # {}
    /\ \E user_name \in UserNames, listing \in DeletedListings :
        LET out == deleted_user_contributions(listing)
        IN  call' = [op |-> "deleted_user_contributions",
                     user_name |-> user_name, listing |-> listing,
                     raised |-> out.raised, yielded |-> out.yielded]
    /\ UNCHANGED wikis

\* A view calls get_user_blocks on its Wiki instance.
GetUserBlocks ==
    /\ call = Idle
    /\ wikis # {}
    /\ \E user_name \in UserNames, log \in BlockLogs :
        LET out == get_user_blocks(log, user_name)
        IN  call' = IF out.raised # ""
                    THEN [op |-> "get_user_blocks", user_name |-> user_name,
                          log |-> log, raised |-> out.raised]
                    ELSE [op |-> "get_user_blocks", user_name |-> user_name,
                          log |-> log, raised |-> "", events |-> out.value]
    /\ UNCHANGED wikis

\* The caller has consumed the outcome of the last call.
Return ==
    /\ call # Idle
    /\ call' = Idle
    /\ UNCHANGED wikis

Next ==
    \/ NewWiki
    \/ EndRequest
    \/ GetCurrentCaseNames
    \/ PageExists
    \/ GetCaseIps
    \/ GetRegistrationTime
    \/ GetCase
    \/ UserContributions
    \/ DeletedUserContributions
    \/ GetUserBlocks
    \/ Return

Spec == Init /\ [][Next]_vars

(***************************************************************************)
(* Properties                                                              *)
(***************************************************************************)

\* C1: the events get_user_blocks returns are in chronological order, oldest
\* first: of any two events the earlier in the list has the timestamp that
\* is not later.
C1_Chronological ==
    (call.op = "get_user_blocks" /\ call.raised = "") =>
        \A i, j \in 1..Len(call.events) :
            i < j => call.events[i].timestamp.t <= call.events[j].timestamp.t

\* A block history of two events at different times was returned.
C1_Witness ==
    /\ call.op = "get_user_blocks"
    /\ call.raised = ""
    /\ Len(call.events) >= 2
    /\ call.events[1].timestamp.t < call.events[2].timestamp.t

\* C2: get_case builds the case from the case page as first document; with
\* use_archive it adds the archive page as second document exactly when the
\* archive has text; without use_archive the case page is the only document
\* and the archive's text is not read from the site.
C2_CaseDocuments ==
    call.op = "get_case" =>
        LET case_title == "Wikipedia:Sockpuppet investigations/" \o call.master_name
            archive_title == case_title \o "/Archive"
            docs == call.value.sources
            read == {call.reads[i] : i \in 1..Len(call.reads)}
        IN  /\ Len(docs) >= 1
            /\ docs[1] = [page_title |-> case_title,
                          wiki_text |-> call.pages[case_title]]
            /\ case_title \in read
            /\ call.use_archive =>
                 IF call.pages[archive_title] # ""
                 THEN /\ Len(docs) = 2
                      /\ docs[2] = [page_title |-> archive_title,
                                    wiki_text |-> call.pages[archive_title]]
                 ELSE Len(docs) = 1
            /\ ~ call.use_archive =>
                 /\ Len(docs) = 1
                 /\ archive_title \notin read

\* get_case was told not to use an archive that has text.
C2_Witness ==
    /\ call.op = "get_case"
    /\ ~ call.use_archive
    /\ call.pages[call.reads[1] \o "/Archive"] # ""

\* C3: get_registration_time returns the registration of the record the
\* site lists when it has one, and returns None without raising otherwise:
\* for a record without 'registration' field and for no record at all.
C3_NoneWhenUndetermined ==
    call.op = "get_registration_time" =>
        /\ call.raised = ""
        /\ call.value =
             IF /\ Len(call.registrations) > 0
                /\ "registration" \in DOMAIN call.registrations[1]
             THEN call.registrations[1]["registration"]
             ELSE [py |-> "None"]

\* The rows of the social-auth table that are the user's mediawiki records.
MediawikiRows(user) ==
    {r \in SocialAuth : r.user = user /\ r.provider = "mediawiki"}

\* The user of a request, None for no request.
UserOf(request) == IF request = None THEN None ELSE get_user(request)

Authenticated(request) ==
    UserOf(request) \notin {None, "AnonymousUser"}

\* The site was created with the four OAuth arguments, the access token and
\* secret being those of a mediawiki record of the request's user.
HasOwnCredentials(site, request) ==
    /\ DOMAIN site.auth =
         {"consumer_token", "consumer_secret", "access_token", "access_secret"}
    /\ site.auth["consumer_token"] = "consumer-key"
    /\ site.auth["consumer_secret"] = "consumer-secret"
    /\ \E r \in MediawikiRows(UserOf(request)) :
         /\ site.auth["access_token"] = r.extra_data.access_token.oauth_token
         /\ site.auth["access_secret"] = r.extra_data.access_token.oauth_token_secret

\* Every live instance holds the site made for its own request, whatever
\* methods were called since: no credentials for None and anonymous
\* requests, the request's user's own for the others.
SiteOfOwnRequest ==
    \A w \in wikis :
        IF Authenticated(w.request)
        THEN HasOwnCredentials(w.site, w.request)
        ELSE DOMAIN w.site.auth = {}

\* C4 as stated: every Wiki(request) creates a Site, with the four OAuth
\* arguments exactly when the request's user is authenticated, and every
\* instance keeps the site of its own request.
C4_CredentialsIffAuthenticated ==
    /\ SiteOfOwnRequest
    /\ call.op = "Wiki" =>
         /\ call.raised = ""
         /\ IF Authenticated(call.request)
            THEN HasOwnCredentials(call.site, call.request)
            ELSE DOMAIN call.site.auth = {}

\* C4 amended: a Site is created unless the request's user is authenticated
\* and does not have exactly one mediawiki record, in which case the lookup
\* raises and no instance exists; a Site that is created has the four OAuth
\* arguments exactly when the request's user is authenticated, and every
\* instance keeps the site of its own request.
C4_CredentialsIffAuthenticatedWithRecord ==
    /\ SiteOfOwnRequest
    /\ call.op = "Wiki" =>
         IF Authenticated(call.request)
              /\ Cardinality(MediawikiRows(UserOf(call.request))) # 1
         THEN /\ call.raised =
                   (IF MediawikiRows(UserOf(call.request)) = {}
                    THEN "DoesNotExist" ELSE "MultipleObjectsReturned")
              /\ ~ \E w \in wikis : w.request = call.request
         ELSE /\ call.raised = ""
              /\ [request |-> call.request, site |-> call.site] \in wikis
              /\ IF Authenticated(call.request)
                 THEN HasOwnCredentials(call.site, call.request)
                 ELSE DOMAIN call.site.auth = {}

\* Two users' instances and an anonymous one live side by side, and a
\* method was called since they were created.
C4_Witness ==
    /\ \E a, b, c \in wikis :
         /\ a.request = "req-alice"
         /\ b.request = "req-bob"
         /\ c.request \in {None, "req-anon"}
    /\ call.op \notin {"idle", "Wiki"}

\* The <<page, revision>> positions of a listing, in listing order.
RECURSIVE Positions(_, _)
Positions(listing, p) ==
    IF p > Len(listing) THEN <<>>
    ELSE [r \in 1..Len(listing[p].revisions) |-> <<p, r>>]
            \o Positions(listing, p + 1)

RECURSIVE KnownEntries(_, _)
KnownEntries(log, i) ==
    IF i > Len(log) THEN <<>>
    ELSE (IF log[i].action \in {"block", "reblock", "unblock"}
          THEN <<i>> ELSE <<>>) \o KnownEntries(log, i + 1)

\* C6: get_user_blocks returns one event per log entry whose action is
\* block, reblock or unblock, in the order of the log, and none for any
\* other entry: a BlockEvent without reblock for block, a BlockEvent with
\* reblock for reblock, an UnblockEvent for unblock, each with the queried
\* user name and its entry's timestamp, a BlockEvent's expiry being the
\* parsed 'expiry' parameter when there is a non-empty one and the absent or
\* empty value otherwise.
C6_OneEventPerKnownEntry ==
    (call.op = "get_user_blocks" /\ call.raised = "") =>
        LET known == KnownEntries(call.log, 1)
        IN  /\ Len(call.events) = Len(known)
            /\ \A k \in 1..Len(known) :
                 LET entry == call.log[known[k]]
                     event == call.events[k]
                 IN  /\ event.target = call.user_name
                     /\ event.timestamp =
                          [py |-> "datetime",
                           t |-> entry.timestamp.tm_mday * 24
                                    + entry.timestamp.tm_hour]
                     /\ event.type =
                          (IF entry.action = "unblock"
                           THEN "UnblockEvent" ELSE "BlockEvent")
                     /\ event.type = "BlockEvent" =>
                          /\ event.reblock = (entry.action = "reblock")
                          /\ event.expiry =
                               IF "expiry" \notin DOMAIN entry.params
                               THEN [py |-> "None"]
                               ELSE IF entry.params["expiry"].s = <<>>
                               THEN [py |-> "str", s |-> <<>>]
                               \* 2020-01-03T01:00:00Z, the one expiry of LogParams
                               ELSE [py |-> "datetime", t |-> 3 * 24 + 1]

\* A log with a block that expires, a reblock and an entry of another
\* action was turned into events.
C6_Witness ==
    /\ call.op = "get_user_blocks"
    /\ call.raised = ""
    /\ Len(call.log) = 2
    /\ call.log[1].action = "protect"
    /\ call.log[2].action = "reblock"
    /\ "expiry" \in DOMAIN call.log[2].params
    /\ call.log[2].params["expiry"].s # <<>>
    /\ Len(call.events) = 1

====
